---- MODULE Spec2Model ----
(***************************************************************************)
(* Model of alfred-search-rs: the staleness scheduler (config.rs), the     *)
(* double-fork daemon (spawn_daemon.rs), the paginated fetcher             *)
(* (gh_client.rs), the sync pipeline and cache store (db_client.rs) and    *)
(* the cache-first query resolver (main.rs).                               *)
(*                                                                         *)
(* Every invocation of the binary is a process p.  It owns up to three OS  *)
(* processes: the foreground ("fg"), the intermediate child of the first   *)
(* fork ("ch") and the grandchild daemon ("dm").  Time is in minutes.      *)
(***************************************************************************)
EXTENDS Integers, Sequences, FiniteSets

----------------------------------------------------------------------------
(* Bounds of the model *)

MaxProcs == 2
\* number of clock ticks the model follows, and the length of one tick
MaxTicks == 2
Quantum == 45
\* the remote collection has at most this many pages
MaxPages == 3
\* and at most this many where several invocations run side by side
MaxPagesShared == 2
\* a finer clock for the staleness window: the length of a short step, and
\* how many of them the model follows
ShortStep == 15
ShortTicks == 3

(* Program constants *)

\* chrono::Duration::minutes(30)
StaleMinutes == 30
\* "LIMIT 5" of both cache queries
Limit == 5

----------------------------------------------------------------------------
(* Strings are sequences of one-character strings. *)

N_ab == <<"a", "b">>
N_A == <<"A">>
N_b == <<"b">>

\* names a table can hold
Names == {N_ab, N_A, N_b}
\* the filters given on the command line
Filters == {<<"a">>, <<"B">>, <<"c">>}

\* Option<T>: <<>> is None, <<x>> is Some(x)
None == <<>>
Some(x) == <<x>>
IsSome(o) == o # <<>>
Unwrap(o) == o[1]

Min(a, b) == IF a < b THEN a ELSE b
Range(s) == {s[i] : i \in DOMAIN s}

----------------------------------------------------------------------------
(* config.rs: the persisted SyncState *)

\* GhAlfredConfig::should_update_db: `time - now > 30 minutes`
should_update_db(last_update_start_time, localNow) ==
    IF last_update_start_time = None
    THEN TRUE
    ELSE Unwrap(last_update_start_time) - localNow > StaleMinutes

----------------------------------------------------------------------------
(* db_client.rs: the cache store.  A table maps a name to its number of    *)
(* rows, so that a duplicate row is a state the model can express.         *)

EmptyTable == [n \in Names |-> 0]
Tables == [Names -> {0, 1}]
Held(table) == {n \in Names : table[n] > 0}

\* the schema of repos/crates: name is the primary key
NameIsPrimaryKey == TRUE

\* one value of "INSERT OR REPLACE INTO repos(name) VALUES (..)"
InsertOrReplace(table, name) ==
    IF NameIsPrimaryKey
    THEN [table EXCEPT ![name] = 1]
    ELSE [table EXCEPT ![name] = @ + 1]

RECURSIVE InsertAll(_, _)
InsertAll(table, page) ==
    IF page = <<>>
    THEN table
    ELSE InsertAll(InsertOrReplace(table, Head(page)), Tail(page))

\* a buggy variant: a plain INSERT that keeps the old row
save_repositories_append(table, page) ==
    [n \in Names |-> table[n] + Cardinality({i \in DOMAIN page : page[i] = n})]

\* a buggy variant: one statement per name, of which only the first is run
save_repositories_first(table, page) ==
    IF page = <<>> THEN table ELSE InsertOrReplace(table, Head(page))

\* DBClient::save_repositories: no statement at all for an empty page
save_repositories(table, page) ==
    IF page = <<>> THEN table ELSE InsertAll(table, page)

\* whether save_repositories executes a statement for this page
WritesBatch(page) == page # <<>>

\* ASCII case folding of SQLite's LIKE
Fold(c) ==
    CASE c = "A" -> "a"
      [] c = "B" -> "b"
      [] c = "C" -> "c"
      [] OTHER -> c

\* SQLite's LIKE: % is any run of characters, _ any one character,
\* letters compare without case
RECURSIVE Like(_, _)
Like(pat, s) ==
    IF pat = <<>>
    THEN s = <<>>
    ELSE IF Head(pat) = "%"
         THEN Like(Tail(pat), s) \/ (s # <<>> /\ Like(pat, Tail(s)))
         ELSE /\ s # <<>>
              /\ (Head(pat) = "_" \/ Fold(Head(pat)) = Fold(Head(s)))
              /\ Like(Tail(pat), Tail(s))

\* format!("%{}%", filter)
LikePattern(filter) == <<"%">> \o filter \o <<"%">>

\* the rows "WHERE name like ?" selects
MatchingRows(table, filter) ==
    UNION {{<<n, i>> : i \in 1..table[n]} :
              n \in {m \in Names : Like(LikePattern(filter), m)}}

\* the sequences of k different elements of S
RECURSIVE Arrangements(_, _)
Arrangements(S, k) ==
    IF k = 0
    THEN {<<>>}
    ELSE UNION {{<<x>> \o s : s \in Arrangements(S \ {x}, k - 1)} : x \in S}

\* "SELECT name FROM t WHERE name like ? LIMIT 5": the row order is the
\* database's choice
SelectNames(table, filter) ==
    LET rows == MatchingRows(table, filter)
        k == Min(Limit, Cardinality(rows))
    IN {[i \in 1..k |-> s[i][1]] : s \in Arrangements(rows, k)}

----------------------------------------------------------------------------
(* gh_client.rs / crate_client.rs: what the remote collaborators return *)

\* the node lists (name_with_owner) of a page of the bulk-fetch endpoint
Pages == {<<>>, <<N_ab>>, <<N_ab, N_b>>, <<N_b, N_b>>}
\* rateLimit { remaining, cost } of a response
RateCounters == {<<2, 1>>, <<1, 1>>, <<0, 1>>}
\* rateLimit { resetAt } of a response, relative to the time it is received
ResetOffsets == {0 - Quantum, 0, Quantum}
\* the name lists of the live search endpoints (at most 5 names, ranked)
LiveLists == {<<>>, <<N_A>>, <<N_A, N_ab>>, <<N_ab, N_A>>}

\* the cursor after page k is the opaque token k
CursorAfter(k) == Some(k)
\* the page a request with cursor `after` asks for
PageIndex(after) == IF IsSome(after) THEN Unwrap(after) + 1 ELSE 1

\* a buggy variant: the cost of the next call is left out
ComputeDelayIgnoringCost(remaining, cost, reset_at, utcNow) ==
    IF remaining > 0
    THEN None
    ELSE IF reset_at - utcNow >= 0
         THEN Some(reset_at - utcNow)
         ELSE None

\* fetch_repositories, lines 143-149: the delay before the next call
ComputeDelay(remaining, cost, reset_at, utcNow) ==
    IF remaining - cost > 0
    THEN None
    ELSE IF reset_at - utcNow >= 0      \* Duration::to_std fails below zero
         THEN Some(reset_at - utcNow)
         ELSE None

\* the struct of a search hit, and its conversion for the output
GHApiRepoSearchItem(n) == [full_name |-> n]
CrateSearchItem(n) == [name |-> n]
AlfredItem(n) == [title |-> n]
RepoItems(names) == [i \in DOMAIN names |-> GHApiRepoSearchItem(names[i])]
CrateItems(names) == [i \in DOMAIN names |-> CrateSearchItem(names[i])]
IntoAlfredFromRepo(items) == [i \in DOMAIN items |-> AlfredItem(items[i].full_name)]
IntoAlfredFromCrate(items) == [i \in DOMAIN items |-> AlfredItem(items[i].name)]

----------------------------------------------------------------------------
(* The state *)

VARIABLES
    now,      \* the clock, in minutes
    config,   \* the persisted GhAlfredConfig.last_update_start_time
    repos,    \* table repos
    crates,   \* table crates
    cmd,      \* the command line of each invocation
    st,       \* the state of each OS process of each invocation
    gh        \* history of each OS process, read by the properties only

vars == <<now, config, repos, crates, cmd, st, gh>>

Procs == 1..MaxProcs
Roles == {"fg", "ch", "dm"}
Threads == Procs \X Roles

NoCmd == [kind |-> "none", filter |-> <<>>]
Commands ==
    {[kind |-> k, filter |-> f] : k \in {"SearchGH", "SearchCrate"}, f \in Filters}
    \cup {[kind |-> "UpdateDb", filter |-> <<>>], [kind |-> "ClearDb", filter |-> <<>>]}
IsSearch(c) == c.kind \in {"SearchGH", "SearchCrate"}

\* a process that does not exist (yet)
Idle ==
    [pc |-> "idle",
     after |-> None,      \* stream_repositories: the cursor of the next request
     page |-> <<>>,       \* the page yielded to save_all_repositories
     end_cursor |-> None, \* RepoPageRead.end_cursor of that page
     delay |-> None,      \* RepoPageRead.delay of that page
     wake |-> 0,          \* when tokio::time::sleep returns
     results |-> <<>>,    \* search_*: the names of `repositories` / `crates`
     out |-> None,        \* what print_results wrote to stdout
     err |-> "" ]         \* the error the process ended with

NoHistory ==
    [requests |-> 0,      \* page requests issued
     afters |-> <<>>,     \* the cursor supplied with each request, in order
     cursors |-> <<>>,    \* the end_cursor of each response, in order
     fetched |-> <<>>,    \* the page of each response, in order
     persisted |-> <<>>,  \* the pages handed to save_repositories, in order
     endedAt |-> None,    \* when the process ended with an error or was killed
     since |-> None,      \* at launch: when the latest refresh before it died
     nonEmpty |-> 0,      \* non-empty pages among the responses
     writes |-> 0,        \* INSERT statements executed
     signals |-> 0,       \* DBUpdateEvents yielded
     prior |-> {},        \* the names in repos when the run began
     saved |-> {},        \* the names of the pages persisted by the run
     rate |-> <<>>,       \* <<remaining, cost, reset_at, time>> of the page in hand
     hits |-> None,       \* what the cache lookup returned
     liveCalls |-> <<>>,  \* the query of each live search issued
     liveRet |-> None ]   \* what the live search returned

\* run_subcommand: where a command begins
Dispatch(c) ==
    CASE c.kind = "UpdateDb" -> "fetch"
      [] c.kind = "ClearDb" -> "reset"
      [] OTHER -> "lookup"

\* a buggy variant: every command looks at the scheduler first
EntryChecksAll(c) == "load"

\* main, line 139: only the search commands look at the scheduler
Entry(c) == IF IsSearch(c) THEN "load" ELSE Dispatch(c)

\* the table a search command reads
TableOf(c) == IF c.kind = "SearchGH" THEN repos ELSE crates

TypeOK ==
    /\ now \in 0..(MaxTicks * Quantum)
    /\ config \in {None} \cup {Some(t) : t \in 0..(MaxTicks * Quantum)}
    /\ repos \in [Names -> Nat]
    /\ crates \in [Names -> Nat]
    /\ cmd \in [Procs -> Commands \cup {NoCmd}]
    /\ DOMAIN st = Threads
    /\ DOMAIN gh = Threads

\* a fresh install: no config file, an empty repos table; nothing in this
\* program writes crates, which holds what it was given
Init ==
    /\ now = 0
    /\ config = None
    /\ repos = EmptyTable
    /\ crates = [EmptyTable EXCEPT ![N_ab] = 1]
    /\ cmd = [p \in Procs |-> NoCmd]
    /\ st = [t \in Threads |-> Idle]
    /\ gh = [t \in Threads |-> NoHistory]

----------------------------------------------------------------------------
(* main.rs: an invocation, the scheduler check and the double fork *)

FG(p) == <<p, "fg">>
CH(p) == <<p, "ch">>
DM(p) == <<p, "dm">>

\* when the latest refresh that ended with an error or was killed did so
LatestDeath ==
    LET ended == {Unwrap(gh[t].endedAt) : t \in {u \in Threads : IsSome(gh[u].endedAt)}}
    IN IF ended = {}
       THEN None
       ELSE Some(CHOOSE m \in ended : \A e \in ended : e <= m)

\* the shell starts the binary with a command line
Launch(p, c) ==
    /\ cmd[p] = NoCmd
    /\ \A q \in Procs : q < p => cmd[q] # NoCmd
    /\ cmd' = [cmd EXCEPT ![p] = c]
    /\ st' = [st EXCEPT ![FG(p)].pc = Entry(c)]
    /\ gh' = [gh EXCEPT ![FG(p)] = [@ EXCEPT
                 !.prior = IF c.kind = "UpdateDb" THEN Held(repos) ELSE @,
                 !.since = LatestDeath]]
    /\ UNCHANGED <<now, config, repos, crates>>

\* run_update_daemon_if_needed, lines 151-154 and 160-164
LoadConfig(p) ==
    /\ st[FG(p)].pc = "load"
    /\ st' = [st EXCEPT ![FG(p)].pc =
                 IF should_update_db(config, now) THEN "mark" ELSE Dispatch(cmd[p])]
    /\ UNCHANGED <<now, config, repos, crates, cmd, gh>>

\* a buggy variant: the start time is not stored before the fork
MarkSkipped(p) ==
    /\ st[FG(p)].pc = "mark"
    /\ st' = [st EXCEPT ![FG(p)].pc = "fork"]
    /\ UNCHANGED <<now, config, repos, crates, cmd, gh>>

\* update_last_update_start_time, called on line 156
MarkStarted(p) ==
    /\ st[FG(p)].pc = "mark"
    /\ config' = Some(now)
    /\ st' = [st EXCEPT ![FG(p)].pc = "fork"]
    /\ UNCHANGED <<now, repos, crates, cmd, gh>>

\* spawn_daemon, line 11: fork().expect(..) panics in the invoking process
ForkFail(p) ==
    /\ st[FG(p)].pc = "fork"
    /\ st' = [st EXCEPT ![FG(p)] = [@ EXCEPT !.pc = "failed", !.err = "fork"]]
    /\ UNCHANGED <<now, config, repos, crates, cmd, gh>>

\* spawn_daemon, lines 18-27: in the first child setsid or the second fork
\* fails and expect(..) panics; the parent's waitpid returns the child's exit
\* status, spawn_daemon returns Main and main goes on to run_subcommand
ChildForkFail(p) ==
    /\ st[FG(p)].pc = "fork"
    /\ st' = [st EXCEPT ![FG(p)].pc = Dispatch(cmd[p]),
                         ![CH(p)] = [@ EXCEPT !.pc = "failed", !.err = "fork"]]
    /\ UNCHANGED <<now, config, repos, crates, cmd, gh>>

\* spawn_daemon, both forks succeed: the first child exits, the parent's
\* waitpid returns and main goes on to run_subcommand; the grandchild
\* returns Daemon and enters update_db
SpawnDaemon(p) ==
    /\ st[FG(p)].pc = "fork"
    /\ st' = [st EXCEPT ![FG(p)].pc = Dispatch(cmd[p]),
                         ![CH(p)].pc = "done",
                         ![DM(p)].pc = "fetch"]
    /\ gh' = [gh EXCEPT ![DM(p)].prior = Held(repos)]
    /\ UNCHANGED <<now, config, repos, crates, cmd>>

----------------------------------------------------------------------------
(* update_db: stream_repositories piped into save_all_repositories *)

\* where a process goes when update_db returns Ok: the foreground of
\* update-cache is done; the daemon returns from run_update_daemon_if_needed
\* into main, which goes on to run_subcommand
AfterUpdate(t) == IF t[2] = "dm" THEN Dispatch(cmd[t[1]]) ELSE "done"

\* a buggy variant: the event is yielded for non-empty pages only
EventsSkippingEmpty(page) == IF page = <<>> THEN 0 ELSE 1

\* save_all_repositories, line 97: the events yielded after a page's save
EventsYielded(page) == 1

\* a buggy variant: the test of the cursor is inverted
StreamEndsInverted(end_cursor) == end_cursor # None

\* stream_repositories, lines 175-177: the stream ends after this page
StreamEnds(end_cursor) == end_cursor = None

\* a buggy variant: the next page is requested while the page in hand is
\* still being saved
FetchOkPrefetching(t, page, more, rc, reset) ==
    /\ st[t].pc \in {"fetch", "save"}
    /\ LET k == PageIndex(st[t].after)
           end_cursor == IF more THEN CursorAfter(k) ELSE None
       IN
       /\ more => k < MaxPages
       /\ st' = [st EXCEPT ![t] = [@ EXCEPT
                    !.pc = "save",
                    !.page = page,
                    !.end_cursor = end_cursor,
                    !.delay = None]]
       /\ gh' = [gh EXCEPT ![t] = [@ EXCEPT
                    !.requests = @ + 1,
                    !.afters = Append(@, st[t].after),
                    !.cursors = Append(@, end_cursor),
                    !.fetched = Append(@, page)]]
    /\ UNCHANGED <<now, config, repos, crates, cmd>>

\* stream_repositories, lines 164-173: one request with the cursor `after`,
\* answered with a page, a cursor if there are more pages, the rate counters
\* and the reset time
FetchOk(t, page, more, rc, reset) ==
    /\ st[t].pc = "fetch"
    /\ LET k == PageIndex(st[t].after)
           end_cursor == IF more THEN CursorAfter(k) ELSE None
       IN
       /\ more => k < MaxPages
       /\ st' = [st EXCEPT ![t] = [@ EXCEPT
                    !.pc = "save",
                    !.page = page,
                    !.end_cursor = end_cursor,
                    !.delay = ComputeDelay(rc[1], rc[2], reset, now)]]
       /\ gh' = [gh EXCEPT ![t] = [@ EXCEPT
                    !.requests = @ + 1,
                    !.afters = Append(@, st[t].after),
                    !.cursors = Append(@, end_cursor),
                    !.fetched = Append(@, page),
                    !.nonEmpty = @ + (IF page = <<>> THEN 0 ELSE 1),
                    !.rate = <<rc[1], rc[2], reset, now>>]]
    /\ UNCHANGED <<now, config, repos, crates, cmd>>

\* a buggy variant: a failed request is issued again
FetchFailRetrying(t) ==
    /\ st[t].pc = "fetch"
    /\ gh[t].requests < MaxPages
    /\ gh' = [gh EXCEPT ![t] = [@ EXCEPT
                 !.requests = @ + 1,
                 !.afters = Append(@, st[t].after)]]
    /\ UNCHANGED <<now, config, repos, crates, cmd, st>>

\* fetch_repositories fails (network, missing data, bad resetAt): the
\* stream yields the error and update_db returns it
FetchFail(t) ==
    /\ st[t].pc = "fetch"
    /\ st' = [st EXCEPT ![t] = [@ EXCEPT !.pc = "failed", !.err = "fetch"]]
    /\ gh' = [gh EXCEPT ![t] = [@ EXCEPT
                 !.requests = @ + 1,
                 !.afters = Append(@, st[t].after),
                 !.endedAt = Some(now)]]
    /\ UNCHANGED <<now, config, repos, crates, cmd>>

\* a buggy variant: the cursor of the page is not kept for the next request
SaveOkDroppingCursor(t) ==
    /\ st[t].pc = "save"
    /\ repos' = save_repositories(repos, st[t].page)
    /\ LET s == st[t] IN
       /\ st' = [st EXCEPT ![t] = [@ EXCEPT
                    !.pc = IF StreamEnds(s.end_cursor) THEN AfterUpdate(t) ELSE "fetch",
                    !.after = None,
                    !.page = <<>>,
                    !.end_cursor = None,
                    !.delay = None]]
       /\ gh' = [gh EXCEPT ![t] = [@ EXCEPT
                    !.writes = @ + (IF WritesBatch(s.page) THEN 1 ELSE 0),
                    !.signals = @ + 1,
                    !.saved = @ \cup Range(s.page),
                    !.persisted = Append(@, s.page),
                    !.rate = <<>>]]
    /\ UNCHANGED <<now, config, crates, cmd>>

\* save_all_repositories, lines 94-97, then update_db's loop polls again
\* and stream_repositories resumes after its yield, lines 175-187
SaveOk(t) ==
    /\ st[t].pc = "save"
    /\ repos' = save_repositories(repos, st[t].page)
    /\ LET s == st[t]
           sleeps == ~StreamEnds(s.end_cursor) /\ IsSome(s.delay)
       IN
       /\ st' = [st EXCEPT ![t] = [@ EXCEPT
                    !.pc = IF StreamEnds(s.end_cursor) THEN AfterUpdate(t)
                           ELSE IF sleeps THEN "sleep" ELSE "fetch",
                    !.after = IF StreamEnds(s.end_cursor) THEN @ ELSE s.end_cursor,
                    !.wake = IF sleeps THEN now + Unwrap(s.delay) ELSE @,
                    !.page = <<>>,
                    !.end_cursor = None,
                    !.delay = None]]
       /\ gh' = [gh EXCEPT ![t] = [@ EXCEPT
                    !.writes = @ + (IF WritesBatch(s.page) THEN 1 ELSE 0),
                    !.signals = @ + EventsYielded(s.page),
                    !.saved = @ \cup Range(s.page),
                    !.persisted = Append(@, s.page),
                    !.rate = <<>>]]
    /\ UNCHANGED <<now, config, crates, cmd>>

\* a buggy variant: the first row of the failed batch stays
SaveFailKeepingRow(t) ==
    /\ st[t].pc = "save"
    /\ WritesBatch(st[t].page)
    /\ repos' = InsertOrReplace(repos, Head(st[t].page))
    /\ st' = [st EXCEPT ![t] = [@ EXCEPT
                 !.pc = "failed", !.err = "save",
                 !.page = <<>>, !.end_cursor = None, !.delay = None]]
    /\ gh' = [gh EXCEPT ![t] = [@ EXCEPT !.rate = <<>>, !.endedAt = Some(now)]]
    /\ UNCHANGED <<now, config, crates, cmd>>

\* save_repositories fails (acquire or execute): nothing of the statement
\* is kept, save_all_repositories yields the error, update_db returns it
SaveFail(t) ==
    /\ st[t].pc = "save"
    /\ WritesBatch(st[t].page)
    /\ st' = [st EXCEPT ![t] = [@ EXCEPT
                 !.pc = "failed", !.err = "save",
                 !.page = <<>>, !.end_cursor = None, !.delay = None]]
    /\ gh' = [gh EXCEPT ![t] = [@ EXCEPT !.rate = <<>>, !.endedAt = Some(now)]]
    /\ UNCHANGED <<now, config, repos, crates, cmd>>

\* the process is killed while it runs update_db: a statement under way
\* is rolled back by the database, nothing else is undone
Kill(t) ==
    /\ st[t].pc \in {"fetch", "save", "sleep"}
    /\ st' = [st EXCEPT ![t] = [@ EXCEPT !.pc = "failed", !.err = "killed"]]
    /\ gh' = [gh EXCEPT ![t].endedAt = Some(now)]
    /\ UNCHANGED <<now, config, repos, crates, cmd>>

\* tokio::time::sleep(duration) returns
WakeUp(t) ==
    /\ st[t].pc = "sleep"
    /\ now >= st[t].wake
    /\ st' = [st EXCEPT ![t] = [@ EXCEPT !.pc = "fetch", !.wake = 0]]
    /\ UNCHANGED <<now, config, repos, crates, cmd, gh>>

----------------------------------------------------------------------------
(* clear_db *)

\* reset_last_update_start_time, called on line 69
ResetConfig(t) ==
    /\ st[t].pc = "reset"
    /\ config' = None
    /\ st' = [st EXCEPT ![t].pc = "clear"]
    /\ UNCHANGED <<now, repos, crates, cmd, gh>>

\* DBClient::clear: "DELETE FROM repos"
ClearTables(t) ==
    /\ st[t].pc = "clear"
    /\ repos' = EmptyTable
    /\ st' = [st EXCEPT ![t].pc = "done"]
    /\ UNCHANGED <<now, config, crates, cmd, gh>>

----------------------------------------------------------------------------
(* search_gh_repositories / search_crate *)

\* a buggy variant: the live search is asked whatever the cache returned
NeedsLiveAlways(results) == TRUE

\* lines 81 and 102: `if repositories.is_empty()`
NeedsLive(results) == results = <<>>

\* a buggy variant: the LIKE pattern is handed to the live search
LiveQueryPattern(filter) == LikePattern(filter)

\* lines 83 and 104: the query handed to the live search
LiveQuery(filter) == filter

\* lines 86-91 and 107-112: the items mapped into AlfredItems
Output(c, names) ==
    IF c.kind = "SearchGH"
    THEN IntoAlfredFromRepo(RepoItems(names))
    ELSE IntoAlfredFromCrate(CrateItems(names))

\* lines 78 and 99: the cache query succeeds; with results the command
\* prints them and ends
LookupOk(t) ==
    /\ st[t].pc = "lookup"
    /\ LET c == cmd[t[1]] IN
       \E names \in SelectNames(TableOf(c), c.filter) :
          /\ st' = [st EXCEPT ![t] = [@ EXCEPT
                       !.pc = IF NeedsLive(names) THEN "live" ELSE "done",
                       !.results = IF NeedsLive(names) THEN names ELSE <<>>,
                       !.out = IF NeedsLive(names) THEN @ ELSE Some(Output(c, names))]]
          /\ gh' = [gh EXCEPT ![t].hits = Some(names)]
    /\ UNCHANGED <<now, config, repos, crates, cmd>>

\* a buggy variant: a failed cache query is taken for an empty result
LookupFailFallingBack(t) ==
    /\ st[t].pc = "lookup"
    /\ st' = [st EXCEPT ![t] = [@ EXCEPT !.pc = "live"]]
    /\ UNCHANGED <<now, config, repos, crates, cmd, gh>>

\* the cache query fails: `?` returns the error
LookupFail(t) ==
    /\ st[t].pc = "lookup"
    /\ st' = [st EXCEPT ![t] = [@ EXCEPT !.pc = "failed", !.err = "db"]]
    /\ UNCHANGED <<now, config, repos, crates, cmd, gh>>

\* a buggy variant: the live search's names are written back to repos
LiveOkWritingBack(t, names) ==
    /\ st[t].pc = "live"
    /\ repos' = save_repositories(repos, names)
    /\ LET c == cmd[t[1]] IN
       /\ st' = [st EXCEPT ![t] = [@ EXCEPT
                    !.pc = "done",
                    !.results = <<>>,
                    !.out = Some(Output(c, names))]]
       /\ gh' = [gh EXCEPT ![t] = [@ EXCEPT
                    !.liveCalls = Append(@, LiveQuery(c.filter)),
                    !.liveRet = Some(names)]]
    /\ UNCHANGED <<now, config, crates, cmd>>

\* lines 82-91 and 103-112: the live search answers, its list replaces
\* the cache's and is printed
LiveOk(t, names) ==
    /\ st[t].pc = "live"
    /\ LET c == cmd[t[1]] IN
       /\ st' = [st EXCEPT ![t] = [@ EXCEPT
                    !.pc = "done",
                    !.results = <<>>,
                    !.out = Some(Output(c, names))]]
       /\ gh' = [gh EXCEPT ![t] = [@ EXCEPT
                    !.liveCalls = Append(@, LiveQuery(c.filter)),
                    !.liveRet = Some(names)]]
    /\ UNCHANGED <<now, config, repos, crates, cmd>>

\* the live search fails: `?` returns the error, nothing is printed
LiveFail(t) ==
    /\ st[t].pc = "live"
    /\ LET c == cmd[t[1]] IN
       /\ st' = [st EXCEPT ![t] = [@ EXCEPT
                    !.pc = "failed", !.err = "live", !.results = <<>>]]
       /\ gh' = [gh EXCEPT ![t].liveCalls = Append(@, LiveQuery(c.filter))]
    /\ UNCHANGED <<now, config, repos, crates, cmd>>

----------------------------------------------------------------------------
(* The clock *)

\* chrono::Local::now() / Utc::now() move on by `step`, up to `horizon`
Advance(step, horizon) ==
    /\ now + step <= horizon
    /\ now' = now + step
    /\ UNCHANGED <<config, repos, crates, cmd, st, gh>>

Tick == Advance(Quantum, MaxTicks * Quantum)

----------------------------------------------------------------------------
(* The specifications *)

SearchCommands == {c \in Commands : IsSearch(c)}

SchedulerStep(p) ==
    \/ LoadConfig(p)
    \/ MarkStarted(p)
    \/ ForkFail(p)
    \/ ChildForkFail(p)
    \/ SpawnDaemon(p)

\* the remote answers a page request with one of `pages`, rate counters of
\* `counters`, a reset time `offsets` from now, and at most maxPages pages
Fetches(t, pages, counters, offsets, maxPages) ==
    \E page \in pages, more \in BOOLEAN, rc \in counters, d \in offsets :
       /\ more => PageIndex(st[t].after) < maxPages
       /\ FetchOk(t, page, more, rc, now + d)

PipelineStep(t) ==
    \/ FetchFail(t)
    \/ SaveOk(t)
    \/ SaveFail(t)
    \/ WakeUp(t)

ClearStep(t) ==
    \/ ResetConfig(t)
    \/ ClearTables(t)

ResolverStep(t) ==
    \/ LookupOk(t)
    \/ LookupFail(t)
    \/ LiveFail(t)

\* The whole program: any invocations, concurrent, from a fresh install.
\* The remote's answers are kept few: a page holds one name, every response
\* reports an exhausted rate limit that resets one tick later.
Next ==
    \/ \E p \in Procs :
          \/ \E c \in {c \in Commands : c.filter \in {<<>>, <<"a">>}} : Launch(p, c)
          \/ SchedulerStep(p)
    \/ \E t \in Threads :
          \/ Fetches(t, {<<N_ab>>}, {<<0, 1>>}, {Quantum}, MaxPagesShared)
          \/ PipelineStep(t)
          \/ ClearStep(t)
          \/ ResolverStep(t)
          \/ LiveOk(t, <<N_A, N_ab>>)
    \/ Tick

Spec == Init /\ [][Next]_vars

\* One refresh run: `update-cache` alone, on a repos table left by earlier
\* runs, against every answer of the remote.
InitRun ==
    /\ now = 0
    /\ config = None
    /\ repos \in Tables
    /\ crates = EmptyTable
    /\ cmd = [p \in Procs |-> IF p = 1 THEN [kind |-> "UpdateDb", filter |-> <<>>] ELSE NoCmd]
    /\ st = [t \in Threads |-> IF t = FG(1) THEN [Idle EXCEPT !.pc = "fetch"] ELSE Idle]
    /\ gh = [t \in Threads |->
                IF t = FG(1) THEN [NoHistory EXCEPT !.prior = Held(repos)] ELSE NoHistory]

NextRun ==
    \/ \E t \in Threads :
          \/ Fetches(t, Pages, RateCounters, ResetOffsets, MaxPages)
          \/ PipelineStep(t)
    \/ Tick

SpecRun == InitRun /\ [][NextRun]_vars

\* One search invocation, on any content of the table it reads and any
\* config file, with the daemon it may spawn, against every answer of the
\* live search.  The daemon's pages are empty or a batch of two names, and
\* the daemon may be killed.
InitSearch ==
    /\ now = 0
    /\ config \in {None, Some(0)}
    /\ \E c \in SearchCommands, table \in Tables :
          /\ cmd = [p \in Procs |-> IF p = 1 THEN c ELSE NoCmd]
          /\ repos = IF c.kind = "SearchGH" THEN table ELSE EmptyTable
          /\ crates = IF c.kind = "SearchCrate" THEN table ELSE EmptyTable
    /\ st = [t \in Threads |-> IF t = FG(1) THEN [Idle EXCEPT !.pc = "load"] ELSE Idle]
    /\ gh = [t \in Threads |-> NoHistory]

NextSearch ==
    \/ \E p \in Procs : SchedulerStep(p)
    \/ \E t \in Threads :
          \/ Fetches(t, {<<>>, <<N_ab, N_b>>}, {<<2, 1>>, <<0, 1>>}, {Quantum}, MaxPagesShared)
          \/ PipelineStep(t)
          \/ Kill(t)
          \/ ResolverStep(t)
          \/ \E names \in LiveLists : LiveOk(t, names)
    \/ Tick

SpecSearch == InitSearch /\ [][NextSearch]_vars

\* The scheduler over time: search invocations one after another or side by
\* side, from a fresh install, on a clock of short steps; their daemons end,
\* fail or are killed.  The invocations stop where the query would begin.
NextCrash ==
    \/ \E p \in Procs :
          \/ Launch(p, [kind |-> "SearchGH", filter |-> <<"a">>])
          \/ SchedulerStep(p)
    \/ \E t \in Threads :
          \/ Fetches(t, {<<N_ab>>}, {<<0, 1>>}, {ShortStep}, MaxPagesShared)
          \/ PipelineStep(t)
          \/ Kill(t)
    \/ Advance(ShortStep, ShortTicks * ShortStep)

SpecCrash == Init /\ [][NextCrash]_vars

----------------------------------------------------------------------------
(* Properties *)

\* the output the spec asks for: one { title } record per name, in order
Titles(names) == [i \in DOMAIN names |-> [title |-> names[i]]]
\* a process inside update_db
Refreshing(t) == st[t].pc \in {"fetch", "save", "sleep"}

(* C1: should_refresh is true exactly when last_sync_started_at is empty   *)
(* or lies more than 30 minutes before now.  The code subtracts the other  *)
(* way round, so a recorded start never becomes stale.                     *)
C1_RefreshIffStale ==
    should_update_db(config, now)
        = (config = None \/ now - Unwrap(config) > StaleMinutes)

(* C2: when the cache lookup returns at least one name, the command        *)
(* prints exactly those names, in the lookup's order, and the live search  *)
(* is never called.                                                        *)
C2_CacheHitSkipsLive ==
    \A t \in Threads :
       (IsSome(gh[t].hits) /\ Unwrap(gh[t].hits) # <<>>) =>
          /\ gh[t].liveCalls = <<>>
          /\ gh[t].liveRet = None
          /\ st[t].pc = "done"
          /\ st[t].out = Some(Titles(Unwrap(gh[t].hits)))

C2_Witness ==
    \E t \in Threads :
       /\ IsSome(gh[t].hits)
       /\ Len(Unwrap(gh[t].hits)) >= 2
       /\ st[t].pc = "done"

(* C3: when the cache lookup returns no name, exactly one live search is   *)
(* issued, with the command's filter, and the command prints exactly the   *)
(* list it returned, in its order; an empty list is printed as an empty    *)
(* output, not an error.                                                   *)
C3_CacheMissReturnsLive ==
    \A t \in Threads :
       gh[t].hits = Some(<<>>) =>
          /\ st[t].pc \in {"live", "done", "failed"}
          /\ st[t].pc = "live" => gh[t].liveCalls = <<>>
          /\ st[t].pc # "live" => gh[t].liveCalls = <<cmd[t[1]].filter>>
          /\ st[t].pc = "done" =>
                /\ IsSome(gh[t].liveRet)
                /\ st[t].out = Some(Titles(Unwrap(gh[t].liveRet)))
          /\ st[t].pc = "failed" => st[t].out = None /\ st[t].err = "live"

C3_Witness ==
    \E t \in Threads :
       /\ gh[t].hits = Some(<<>>)
       /\ st[t].pc = "done"
       /\ gh[t].liveRet = Some(<<N_ab, N_A>>)

(* C4: a step of query resolution (the cache lookup, the live search)      *)
(* leaves both tables as they were, whichever path it takes; only a        *)
(* refresh running beside it writes.                                       *)
C4_ResolveLeavesStore ==
    [][\A t \in Threads :
          (st[t].pc \in {"lookup", "live"} /\ st'[t] # st[t])
             => (repos' = repos /\ crates' = crates)]_vars

C4_Witness ==
    \E p \in Procs :
       /\ st[FG(p)].pc = "done"
       /\ IsSome(gh[FG(p)].liveRet)
       /\ Unwrap(gh[FG(p)].liveRet) # <<>>
       /\ Refreshing(DM(p))
       /\ gh[DM(p)].writes > 0

\* pages of a run that were yielded but not saved: the page in hand, or
\* the page whose save failed
Unsaved(t) == IF st[t].pc = "save" \/ st[t].err = "save" THEN 1 ELSE 0
UnsavedNonEmpty(t) ==
    IF (st[t].pc = "save" /\ st[t].page # <<>>) \/ st[t].err = "save" THEN 1 ELSE 0

(* C5, as claimed: the progress signals of a run are as many as the        *)
(* non-empty pages it persisted (an empty page gives no signal).           *)
C5_SignalsCountNonEmptyPages ==
    \A t \in Threads : gh[t].signals = gh[t].writes

(* C5, amended: every non-empty page is persisted as one batch, an empty   *)
(* page causes no write, and after every page, empty or not, exactly one   *)
(* progress signal is emitted: the signals of a run are as many as the     *)
(* pages it consumed, the writes as many as the non-empty ones.            *)
C5_SignalPerPage ==
    \A t \in Threads :
       /\ gh[t].signals = Len(gh[t].cursors) - Unsaved(t)
       /\ gh[t].writes = gh[t].nonEmpty - UnsavedNonEmpty(t)

C5_Witness ==
    \E t \in Threads :
       /\ st[t].pc = "done"
       /\ gh[t].writes >= 1
       /\ gh[t].signals > gh[t].writes

(* C6: when persisting page k fails the run ends with that error, it       *)
(* issues no further request and writes nothing more, and repos holds      *)
(* what it held before the run plus the names of pages 1..k-1.             *)
C6_FailedSaveKeepsEarlierPages ==
    /\ [](\A t \in Threads :
            st[t].err = "save" =>
               /\ st[t].pc = "failed"
               /\ gh[t].requests = Len(gh[t].cursors)
               /\ gh[t].writes = gh[t].nonEmpty - 1
               /\ Held(repos) = gh[t].prior \cup gh[t].saved)
    /\ [][\A t \in Threads :
            st[t].err = "save" =>
               (st'[t] = st[t] /\ gh'[t] = gh[t] /\ repos' = repos)]_vars

C6_Witness ==
    \E t \in Threads :
       /\ st[t].err = "save"
       /\ gh[t].prior = {}
       /\ gh[t].cursors = <<Some(1), Some(2)>>
       /\ gh[t].saved = {N_ab}
       /\ Held(repos) = {N_ab}

\* the responses a run received before the first one without a cursor,
\* that one included
UpToFirstEnd(cursors) ==
    IF \E i \in DOMAIN cursors : cursors[i] = None
    THEN (CHOOSE i \in DOMAIN cursors :
             cursors[i] = None /\ \A j \in 1..(i - 1) : cursors[j] # None)
    ELSE Len(cursors)

\* what holds of the page sequence whatever the scenario's count
EndsAtFirstEmptyCursor(t) ==
    /\ Len(gh[t].cursors) = UpToFirstEnd(gh[t].cursors)
    /\ st[t].pc \in {"fetch", "sleep"} =>
          \A i \in DOMAIN gh[t].cursors : gh[t].cursors[i] # None
    /\ (st[t].pc = "done" /\ cmd[t[1]].kind = "UpdateDb") =>
          /\ gh[t].cursors # <<>>
          /\ gh[t].cursors[Len(gh[t].cursors)] = None
          /\ gh[t].requests = Len(gh[t].cursors)
          /\ gh[t].signals = Len(gh[t].cursors)

\* the scenario: the responses carry the cursors A, B and none
ScenarioABNull(t) ==
    /\ st[t].pc = "done"
    /\ gh[t].cursors = <<CursorAfter(1), CursorAfter(2), None>>

(* C7, as claimed: the sequence ends after the first page without a        *)
(* cursor, and with cursors A, B, null it yields exactly two pages.        *)
C7_ScenarioYieldsTwoPages ==
    \A t \in Threads :
       /\ EndsAtFirstEmptyCursor(t)
       /\ ScenarioABNull(t) => gh[t].signals = 2

(* C7, amended: the sequence ends normally exactly after the first page    *)
(* without a cursor: that page is yielded, no further request is issued,   *)
(* and the pages yielded are as many as the responses up to and including  *)
(* it; with cursors A, B, null it yields exactly three pages.              *)
C7_EndsAtFirstEmptyCursor ==
    \A t \in Threads :
       /\ EndsAtFirstEmptyCursor(t)
       /\ ScenarioABNull(t) => gh[t].signals = 3

C7_Witness == \E t \in Threads : ScenarioABNull(t)

(* C8: after a page whose counters give remaining - cost <= 0 and whose    *)
(* reset time lies ahead of the time it was received, the next request     *)
(* waits for exactly that difference; with remaining - cost > 0, or a      *)
(* reset time not ahead, nothing is waited.                                *)
C8_DelayFollowsRateLimit ==
    [][\A t \in Threads :
          /\ (st[t].pc = "save" /\ st'[t].pc \in {"fetch", "sleep"}) =>
                LET r == gh[t].rate
                    due == r[3] - r[4]
                IN IF r[1] - r[2] <= 0 /\ due > 0
                   THEN st'[t].pc = "sleep" /\ st'[t].wake = now + due
                   ELSE st'[t].pc = "fetch" \/ st'[t].wake = now
          /\ (st[t].pc = "sleep" /\ st'[t].pc = "fetch") => now >= st[t].wake]_vars

C8_Witness ==
    \E t \in Threads :
       /\ st[t].pc = "sleep"
       /\ st[t].wake = now + Quantum
       /\ gh[t].requests = 2

(* C9: whatever pages are persisted, a table holds at most one row per     *)
(* name: a save leaves exactly one row for every name of its page and      *)
(* every other row as it was.                                              *)
C9_OneRowPerName ==
    /\ [](\A n \in Names : repos[n] <= 1 /\ crates[n] <= 1)
    /\ [][\A t \in Threads :
            (st[t].pc = "save" /\ st'[t].pc # "save" /\ st'[t].err # "save") =>
               \A n \in Names :
                  repos'[n] = IF n \in Range(st[t].page) THEN 1 ELSE repos[n]]_vars

C9_Witness ==
    \E t \in Threads :
       /\ N_b \in gh[t].prior
       /\ gh[t].cursors = <<Some(1), None>>
       /\ st[t].pc = "done"
       /\ gh[t].writes = 2
       /\ gh[t].saved = {N_b}

(* C10: at most one background refresh worker runs at any time.  Nothing   *)
(* in the code excludes a second one.                                      *)
C10_AtMostOneWorker ==
    Cardinality({p \in Procs : Refreshing(DM(p))}) <= 1

(* C11: update-cache and clear-cache never load the config to decide on a  *)
(* refresh, never record a start time and never fork: they run in the      *)
(* foreground alone.  A search enters its query only from the scheduler    *)
(* check: either the check found no refresh due, or the start time was     *)
(* recorded and spawn_daemon has returned in the foreground.               *)
C11_OnlySearchesCheckScheduler ==
    /\ [](\A p \in Procs :
            cmd[p].kind \in {"UpdateDb", "ClearDb"} =>
               /\ st[FG(p)].pc \notin {"load", "mark", "fork"}
               /\ st[CH(p)] = Idle
               /\ st[DM(p)] = Idle)
    /\ [][\A p \in Procs :
            /\ (cmd[p].kind \in {"UpdateDb", "ClearDb"} /\ st'[FG(p)] # st[FG(p)])
                  => config' \in {config, None}
            /\ (cmd[p] = NoCmd /\ IsSearch(cmd'[p])) => st'[FG(p)].pc = "load"
            /\ (IsSearch(cmd[p]) /\ st[FG(p)].pc # "lookup" /\ st'[FG(p)].pc = "lookup")
                  => \/ st[FG(p)].pc = "load" /\ ~should_update_db(config, now)
                     \/ st[FG(p)].pc = "fork" /\ st'[CH(p)].pc # "idle"
            /\ (st[FG(p)].pc # "fork" /\ st'[FG(p)].pc = "fork")
                  => /\ st[FG(p)].pc = "mark"
                     /\ config' = Some(now)]_vars

C11_Witness ==
    \E p, q \in Procs :
       /\ cmd[p].kind \in {"UpdateDb", "ClearDb"}
       /\ st[FG(p)].pc = "done"
       /\ IsSearch(cmd[q])
       /\ st[FG(q)].pc = "done"
       /\ Refreshing(DM(q))
       /\ gh[DM(q)].requests > 0

(* C12: when a fork of the detach sequence fails, in the invoking process  *)
(* or in the first child, the invocation ends with a failure: the          *)
(* foreground resolves no query, prints nothing and runs no refresh.  The  *)
(* code panics only in the process whose fork failed.                      *)
C12_ForkFailureAborts ==
    \A p \in Procs :
       (st[FG(p)].err = "fork" \/ st[CH(p)].err = "fork") =>
          /\ st[FG(p)].pc = "failed"
          /\ st[FG(p)].out = None
          /\ gh[FG(p)].hits = None
          /\ gh[FG(p)].liveCalls = <<>>
          /\ gh[FG(p)].requests = 0

(* C13: when clear-cache has ended successfully both tables are empty and  *)
(* the recorded start time is empty, so that the next invocation finds a   *)
(* refresh due.  DBClient::clear deletes the rows of repos only.           *)
C13_ClearEmptiesEverything ==
    [][\A t \in Threads :
          (st[t].pc = "clear" /\ st'[t].pc = "done") =>
             /\ Held(repos') = {}
             /\ Held(crates') = {}
             /\ config' = None
             /\ should_update_db(config', now')]_vars

\* s contains f as a substring, letter case included
Contains(s, f) ==
    \E i \in 1..(Len(s) - Len(f) + 1) : SubSeq(s, i, i + Len(f) - 1) = f

(* C14: the cache lookup returns at most 5 names, each a name of the       *)
(* table that contains the filter literally, letter case included, and at  *)
(* least one name when the table holds such a name.  LIKE compares ASCII   *)
(* letters without case.                                                   *)
C14_LookupIsCaseSensitiveSubstring ==
    [][\A t \in Threads :
          (st[t].pc = "lookup" /\ IsSome(gh'[t].hits)) =>
             LET c == cmd[t[1]]
                 hits == Unwrap(gh'[t].hits)
             IN /\ Len(hits) <= Limit
                /\ \A i \in DOMAIN hits :
                      /\ hits[i] \in Held(TableOf(c))
                      /\ Contains(hits[i], c.filter)
                /\ (\E n \in Held(TableOf(c)) : Contains(n, c.filter)) => hits # <<>>]_vars

(* C20: the detached worker runs the fetch-and-sync pipeline and nothing   *)
(* else: it resolves no query and prints nothing, and the foreground runs  *)
(* no refresh, so one invocation prints one result list.  In the code the  *)
(* worker returns from update_db into main and goes on to run_subcommand.  *)
C20_WorkerOnlyRefreshes ==
    \A p \in Procs :
       IsSearch(cmd[p]) =>
          /\ st[DM(p)].pc \in {"idle", "fetch", "save", "sleep", "done", "failed"}
          /\ gh[DM(p)].hits = None
          /\ gh[DM(p)].liveCalls = <<>>
          /\ st[DM(p)].out = None
          /\ gh[FG(p)].requests = 0

\* s is t or t without its last elements
IsPrefix(s, t) == Len(s) <= Len(t) /\ SubSeq(t, 1, Len(s)) = s

(* C15: a refresh run has at most one page in flight: a page request is    *)
(* issued only when every page received so far has been persisted, and     *)
(* the pages are persisted one by one in the order they were fetched.      *)
C15_OnePageInFlight ==
    /\ [](\A t \in Threads :
            /\ IsPrefix(gh[t].persisted, gh[t].fetched)
            /\ Len(gh[t].fetched) - Len(gh[t].persisted) <= 1
            /\ Len(gh[t].fetched) > Len(gh[t].persisted) =>
                  /\ st[t].pc = "save" \/ st[t].err = "save"
                  /\ st[t].pc = "save" =>
                        st[t].page = gh[t].fetched[Len(gh[t].fetched)])
    /\ [][\A t \in Threads :
            /\ gh'[t].requests > gh[t].requests =>
                  /\ st[t].pc = "fetch"
                  /\ st[t].page = <<>>
                  /\ gh[t].persisted = gh[t].fetched
            /\ gh'[t].persisted # gh[t].persisted =>
                  /\ gh'[t].persisted = gh[t].fetched
                  /\ gh'[t].requests = gh[t].requests
                  /\ repos' = save_repositories(repos, gh[t].fetched[Len(gh[t].fetched)])]_vars

C15_Witness ==
    \E t \in Threads :
       /\ st[t].pc = "done"
       /\ gh[t].fetched = <<(<<N_ab>>), <<>>, <<N_b, N_b>>>>
       /\ gh[t].persisted = gh[t].fetched

(* C16: when the request for page k fails the run ends with that error    *)
(* in place of page k: the request is not repeated, no further request is  *)
(* issued, nothing more is written, and repos keeps what it held before    *)
(* the run plus the names of pages 1..k-1, all of which were persisted.    *)
C16_FailedFetchEndsRun ==
    /\ [](\A t \in Threads :
            st[t].err = "fetch" =>
               /\ st[t].pc = "failed"
               /\ gh[t].requests = Len(gh[t].fetched) + 1
               /\ gh[t].persisted = gh[t].fetched
               /\ Held(repos) = gh[t].prior \cup gh[t].saved)
    /\ [][\A t \in Threads :
            /\ (st[t].pc = "fetch" /\ gh'[t].requests > gh[t].requests) =>
                  \/ st'[t].err = "fetch" /\ repos' = repos
                  \/ Len(gh'[t].fetched) = Len(gh[t].fetched) + 1
            /\ st[t].err = "fetch" =>
                  (st'[t] = st[t] /\ gh'[t] = gh[t] /\ repos' = repos)]_vars

C16_Witness ==
    \E t \in Threads :
       /\ st[t].err = "fetch"
       /\ gh[t].prior = {N_A}
       /\ gh[t].fetched = <<(<<N_ab>>), <<N_b, N_b>>>>
       /\ gh[t].requests = 3
       /\ Held(repos) = Names

(* C17: the first page request of every refresh run carries no cursor,     *)
(* and every later request carries the cursor returned with the page just  *)
(* before it; a run begins without a cursor whatever earlier runs did, so  *)
(* a run after a failed run starts from the first page.                    *)
C17_CursorChain ==
    /\ [](\A t \in Threads :
            /\ Len(gh[t].afters) = gh[t].requests
            /\ gh[t].afters # <<>> => gh[t].afters[1] = None
            /\ \A i \in 2..Len(gh[t].afters) :
                  /\ IsSome(gh[t].afters[i])
                  /\ gh[t].afters[i] = gh[t].cursors[i - 1])
    /\ [][\A t \in Threads :
            (~Refreshing(t) /\ Refreshing(t)') =>
               /\ st'[t].after = None
               /\ gh'[t].afters = <<>>]_vars

C17_Witness ==
    \E t, u \in Threads :
       /\ st[t].err \in {"fetch", "save"}
       /\ gh[t].cursors = <<CursorAfter(1)>>
       /\ IsSome(gh[u].since)
       /\ gh[u].afters = <<None, CursorAfter(1)>>
       /\ gh[u].cursors = <<CursorAfter(1), None>>

(* C18: a batch is written by one statement: every change of repos a       *)
(* reader can observe is the whole batch a worker has in hand (all its     *)
(* names present afterwards, every other row untouched); a save that       *)
(* fails, or a worker killed during its persist, leaves repos as it was;   *)
(* and a lookup reads one such state of the table.                         *)
C18_BatchIsAllOrNothing ==
    [][/\ repos' # repos =>
             \E t \in Threads :
                /\ st[t].pc = "save"
                /\ st'[t].pc \notin {"save", "failed"}
                /\ Range(st[t].page) \subseteq Held(repos')
                /\ \A n \in Names \ Range(st[t].page) : repos'[n] = repos[n]
       /\ \A t \in Threads :
             /\ (st[t].pc = "save" /\ st'[t].pc = "failed") => repos' = repos
             /\ (st[t].pc = "lookup" /\ IsSome(gh'[t].hits)) =>
                   Unwrap(gh'[t].hits) \in SelectNames(TableOf(cmd[t[1]]), cmd[t[1]].filter)]_vars

C18_Witness ==
    \E p \in Procs :
       /\ st[DM(p)].err = "killed"
       /\ Len(gh[DM(p)].fetched) = Len(gh[DM(p)].persisted) + 1
       /\ gh[DM(p)].fetched[Len(gh[DM(p)].fetched)] = <<N_ab, N_b>>
       /\ Held(repos) = {}
       /\ cmd[p] = [kind |-> "SearchGH", filter |-> <<"B">>]
       /\ gh[FG(p)].hits = Some(<<>>)
       /\ st[FG(p)].pc = "done"

(* C19: when a refresh is due the start time is stored before the worker   *)
(* is detached and before any page is requested; so after a worker has     *)
(* failed or was killed, a search launched within 30 minutes of that       *)
(* finds no refresh due and goes to its query without a fork.              *)
C19_StartStoredBeforeWork ==
    [][\A p \in Procs :
          /\ (st[FG(p)].pc = "fork" /\ st'[FG(p)].pc # "fork") =>
                /\ IsSome(config)
                /\ Unwrap(config) <= now
          /\ gh'[DM(p)].requests > gh[DM(p)].requests => IsSome(config)
          /\ ( /\ st[FG(p)].pc = "load"
               /\ st'[FG(p)].pc # "load"
               /\ IsSome(gh[FG(p)].since)
               /\ now - Unwrap(gh[FG(p)].since) <= StaleMinutes ) =>
                /\ ~should_update_db(config, now)
                /\ st'[FG(p)].pc = Dispatch(cmd[p])
                /\ config' = config
                /\ st'[DM(p)] = Idle]_vars

C19_Witness ==
    \E p, q \in Procs :
       /\ st[DM(q)].err \in {"fetch", "save", "killed"}
       /\ IsSome(gh[FG(p)].since)
       /\ now - Unwrap(gh[FG(p)].since) \in 1..StaleMinutes
       /\ st[FG(p)].pc = "lookup"
       /\ st[CH(p)] = Idle
       /\ st[DM(p)] = Idle

(* C21: when the cache lookup of a search command fails, the command ends  *)
(* with that error: it calls no live search and prints nothing.  A live    *)
(* search is called only after a lookup that succeeded with no name.       *)
C21_LookupErrorEndsCommand ==
    /\ [](\A t \in Threads :
            /\ st[t].err = "db" =>
                  /\ st[t].pc = "failed"
                  /\ gh[t].hits = None
                  /\ gh[t].liveCalls = <<>>
                  /\ gh[t].liveRet = None
                  /\ st[t].out = None
            /\ (st[t].pc = "live" \/ gh[t].liveCalls # <<>>) =>
                  gh[t].hits = Some(<<>>))
    /\ [][\A t \in Threads :
            /\ st[t].err = "db" => (st'[t] = st[t] /\ gh'[t] = gh[t])
            /\ (st[t].pc = "lookup" /\ st'[t].pc = "live") =>
                  gh'[t].hits = Some(<<>>)]_vars

C21_Witness ==
    \E p \in Procs :
       /\ cmd[p].kind = "SearchGH"
       /\ st[FG(p)].err = "db"
       /\ st[FG(p)].pc = "failed"
       /\ Held(repos) = {}

====
